---- MODULE Spec2Model ----
(***************************************************************************)
(* Model of the AudioVolumeChangeHandler JNI bridge                        *)
(* (services/core/jni/com_android_server_audio_AudioVolumeChangeHandler.cpp)*)
(*                                                                         *)
(* One owner object (the Java AudioVolumeChangeHandler, "thiz") with its   *)
(* long field mJniCallback, two owner-side threads that call native_setup  *)
(* and native_finalize, and one delivery thread of the event source        *)
(* (AudioSystem) that calls onAudioVolumeGroupChanged on registered         *)
(* bridges.  Statements that touch shared state are separate steps, so    *)
(* the threads interleave inside the functions; statements that touch only *)
(* a thread's own locals are joined to the step that follows them.         *)
(***************************************************************************)
EXTENDS Integers, Sequences, FiniteSets, TLC

\* ------------------------------------------------------------------ bounds
\* Number of JNIAudioVolumeChangeHandler objects that can be constructed
\* (each native_setup constructs one).
MaxBridges == 2

\* ---------------------------------------------------------------- universe
\* The null pointer: the 0 passed at line 124 and the value of an empty slot.
Null == 0
Bridges == 1..MaxBridges
Refs == 0..MaxBridges
Threads == {"t1", "t2"}
\* The (group, flags) pairs the event source delivers.
Payloads == {<<3, 1>>, <<0, 2>>}
Handles == {"mClass", "mObject"}
Unset == <<"unset">>
Clazz == <<"jclass", "AudioVolumeChangeHandler">>
NullObject == "NULL"
NO_ERROR == "NO_ERROR"
INVALID_OPERATION == "INVALID_OPERATION"
AUDIOVOLUMEGROUP_EVENT_VOLUME_CHANGED == "VOLUME_CHANGED"
\* The ids register_android_server_audio_AudioVolumeChangeHandler looks up.
PostEventMethodId ==
    <<"jmethodID", "postEventFromNative", "(Ljava/lang/Object;IIILjava/lang/Object;)V">>
JniCallbackFieldId == <<"jfieldID", "mJniCallback", "J">>

VARIABLES
    \* --- process-wide state set up by JNI registration
    jni,         \* "start" | "registered" | "aborted"
    postEventFromNative, \* gAudioVolumeChangeHandlerMethods.postEventFromNative
    mJniCallback,        \* gAudioVolumeChangeHandlerFields.mJniCallback
    idWrites,    \* number of assignments to postEventFromNative so far
    \* --- program state
    slot,        \* thiz.mJniCallback: Null or the bridge it points to
    gLock,       \* holder of gLock: "none" or a thread
    nextB,       \* next bridge to construct
    mClass,      \* bridge -> Clazz | Unset
    mObject,     \* bridge -> proxy | Unset
    rc,          \* bridge -> strong reference count (RefBase)
    destroyed,   \* bridge -> its destructor has run
    registry,    \* bridges held by the event source's callback registry
    \* --- owner threads
    pc,          \* thread -> position
    op,          \* thread -> "none" | "setup" | "teardown": the call it is in
    callback,    \* thread -> local sp<> callback of setup / finalize
    status,      \* thread -> result of addAudioVolumeGroupCallback
    swNew,       \* thread -> setJniCallback's argument callback
    swOld,       \* thread -> setJniCallback's local sp<> old
    \* --- delivery thread of the event source
    evPc, evB, evGroup, evFlags, evEnv, evCalls, evArgs, evRaised, evAfterErr,
    pending,     \* a Java exception is pending on the delivery thread's JNIEnv
    \* --- observation (history) variables
    acquired,    \* bridge -> handle -> number of NewGlobalRef calls
    released,    \* bridge -> handle -> number of DeleteGlobalRef calls on it
    badDelete,   \* bridge -> DeleteGlobalRef calls on a field never set
    removeCalls, \* ref -> number of removeAudioVolumeGroupCallback calls
    takenBy,     \* bridge -> "none" | "setup" | "teardown": the call that displaced it
    tornDown,    \* bridges taken out by a teardown that has returned
    superseded,  \* bridges displaced by a setup that has returned
    addFailed,   \* bridges whose setup saw addCallback fail and has returned
    lastInstalled, \* bridge most recently written into the slot by a setup
    slotWrites   \* thread -> slot writes made by the call it is in

regVars == <<jni, postEventFromNative, mJniCallback, idWrites>>
progVars == <<slot, gLock, nextB, mClass, mObject, rc, destroyed, registry>>
thrVars == <<pc, op, callback, status, swNew, swOld>>
evVars == <<evPc, evB, evGroup, evFlags, evEnv, evCalls, evArgs, evRaised,
           evAfterErr, pending>>
handleVars == <<acquired, released, badDelete>>
histVars == <<removeCalls, takenBy, tornDown, superseded, addFailed, lastInstalled,
             slotWrites>>
vars == <<regVars, progVars, thrVars, evVars, handleVars, histVars>>

\* ------------------------------------------------------------ RefBase / sp<>
Heap == [rc |-> rc, destroyed |-> destroyed, released |-> released,
         badDelete |-> badDelete]

\* env->DeleteGlobalRef(field) in the destructor.
DeleteGlobalRef(h, b, f, value) ==
    IF value = Unset
    THEN [h EXCEPT !.badDelete[b] = @ + 1]
    ELSE [h EXCEPT !.released[b][f] = @ + 1]

\* ~JNIAudioVolumeChangeHandler: without a JNIEnv it returns at once.
Destructor(h, b, env) ==
    LET h0 == [h EXCEPT !.destroyed[b] = TRUE] IN
    IF ~env THEN h0
    ELSE DeleteGlobalRef(DeleteGlobalRef(h0, b, "mObject", mObject[b]),
                         b, "mClass", mClass[b])

\* The destructor runs on the thread that drops the last strong reference;
\* in this file that is a thread inside native_setup / native_finalize, which
\* entered through JNI and so has a JNIEnv.
CallerEnv == TRUE

IncStrongMissing(h, b) == h
IncStrong(h, b) ==
    IF b = Null THEN h ELSE [h EXCEPT !.rc[b] = @ + 1]

\* decStrong that runs the destructor one reference early
DecStrongEarly(h, b) ==
    IF b = Null THEN h
    ELSE LET h1 == [h EXCEPT !.rc[b] = @ - 1] IN
         IF h1.rc[b] <= 1 THEN Destructor(h1, b, CallerEnv) ELSE h1

DecStrong(h, b) ==
    IF b = Null THEN h
    ELSE LET h1 == [h EXCEPT !.rc[b] = @ - 1] IN
         IF h1.rc[b] = 0 THEN Destructor(h1, b, CallerEnv) ELSE h1

SetHeap(h) ==
    /\ rc' = h.rc
    /\ destroyed' = h.destroyed
    /\ released' = h.released
    /\ badDelete' = h.badDelete

\* Each native_setup call is handed its own weak reference to the observer
\* (weak_thiz); the one given to the call that constructs bridge b:
WeakThiz(b) == <<"weak_thiz", b>>

\* ------------------------------------------------------------- conditions
\* line 115: AudioSystem::addAudioVolumeGroupCallback(callback) == NO_ERROR
AddSucceededAlways(st) == TRUE
AddSucceeded(st) == st = NO_ERROR

\* line 125: if (callback != 0)
ShouldRemoveAlways(cb) == TRUE
ShouldRemoveNever(cb) == FALSE
ShouldRemove(cb) == cb # Null

\* lines 101-102: the value SetLongField stores
NewSlotValueKeepOnClear(old, new) == IF new = Null THEN old ELSE new
NewSlotValue(old, new) == new

\* line 92: Mutex::Autolock l(gLock) gets past the mutex when no thread
\* holds it
LockFreeAlways(l) == TRUE
LockFree(l) == l = "none"

\* line 104: setJniCallback returns and the Autolock of line 92 goes out of
\* scope; the holder of gLock afterwards
LockKeptAtReturn(t) == t
LockAtReturn(t) == "none"

\* line 83: env->ExceptionClear()
ExceptionClearSkipped(p) == p
ExceptionClear(p) == FALSE

\* lines 77-80: the arguments of CallStaticVoidMethod after the method id
DispatchArgsSwapped(b, group, flags) ==
    <<mObject[b], AUDIOVOLUMEGROUP_EVENT_VOLUME_CHANGED, flags, group, NullObject>>
DispatchArgs(b, group, flags) ==
    <<mObject[b], AUDIOVOLUMEGROUP_EVENT_VOLUME_CHANGED, group, flags, NullObject>>

\* lines 153-156: native_setup and native_finalize are bound to their Java
\* methods by RegisterMethodsOrDie, the last statement of registration; no
\* call of either can enter this file before it has returned.
NativesRegisteredAlways(j) == TRUE
NativesRegistered(j) == j = "registered"

\* FindClassOrDie, GetStaticMethodIDOrDie, GetFieldIDOrDie and
\* RegisterMethodsOrDie return to their caller when the lookup succeeded and
\* end the process (a fatal log) when it did not.
OrDie(found) == found

\* The owner threads run the same code and an idle thread holds no state, so
\* of two idle threads it is always the first that makes the next call.
CanStart(t) == t = "t1" \/ pc["t1"] # "idle"

\* The event source is running a callback on b.
InFlight(b) == evPc # "idle" /\ evB = b

\* ------------------------------------------------------------------- Init
Init ==
    /\ jni = "start"
    /\ postEventFromNative = Unset
    /\ mJniCallback = Unset
    /\ idWrites = 0
    /\ slot = Null
    /\ gLock = "none"
    /\ nextB = 1
    /\ mClass = [b \in Bridges |-> Unset]
    /\ mObject = [b \in Bridges |-> Unset]
    /\ rc = [b \in Bridges |-> 0]
    /\ destroyed = [b \in Bridges |-> FALSE]
    /\ registry = {}
    /\ pc = [t \in Threads |-> "idle"]
    /\ op = [t \in Threads |-> "none"]
    /\ callback = [t \in Threads |-> Null]
    /\ status = [t \in Threads |-> NO_ERROR]
    /\ swNew = [t \in Threads |-> Null]
    /\ swOld = [t \in Threads |-> Null]
    /\ evPc = "idle"
    /\ evB = Null
    /\ evGroup = 0
    /\ evFlags = 0
    /\ evEnv = TRUE
    /\ evCalls = 0
    /\ evArgs = <<>>
    /\ evRaised = FALSE
    /\ evAfterErr = FALSE
    /\ pending = FALSE
    /\ acquired = [b \in Bridges |-> [f \in Handles |-> 0]]
    /\ released = [b \in Bridges |-> [f \in Handles |-> 0]]
    /\ badDelete = [b \in Bridges |-> 0]
    /\ removeCalls = [r \in Refs |-> 0]
    /\ takenBy = [b \in Bridges |-> "none"]
    /\ tornDown = {}
    /\ superseded = {}
    /\ addFailed = {}
    /\ lastInstalled = Null
    /\ slotWrites = [t \in Threads |-> 0]

\* ------------------------------------------------------------ registration
\* lines 140-157: register_android_server_audio_AudioVolumeChangeHandler, run
\* once by the process's JNI initialisation.  cls, mth, fld, reg are whether
\* the class, the static method, the field and the native-method binding
\* resolve; the first lookup that fails ends the process there.
RegisterNatives(cls, mth, fld, reg) ==
    /\ jni = "start"
    /\ LET gotMethod == OrDie(cls) /\ OrDie(mth)
           gotField == gotMethod /\ OrDie(fld)
       IN /\ postEventFromNative' = IF gotMethod THEN PostEventMethodId
                                    ELSE postEventFromNative
          /\ idWrites' = IF gotMethod THEN idWrites + 1 ELSE idWrites
          /\ mJniCallback' = IF gotField THEN JniCallbackFieldId ELSE mJniCallback
          /\ jni' = IF gotField /\ OrDie(reg) THEN "registered" ELSE "aborted"
    /\ UNCHANGED <<progVars, thrVars, evVars, handleVars, histVars>>

\* The locals of a call are gone when it returns.
ClearLocals(t) ==
    /\ pc' = [pc EXCEPT ![t] = "idle"]
    /\ op' = [op EXCEPT ![t] = "none"]
    /\ callback' = [callback EXCEPT ![t] = Null]
    /\ status' = [status EXCEPT ![t] = NO_ERROR]
    /\ swNew' = [swNew EXCEPT ![t] = Null]
    /\ swOld' = [swOld EXCEPT ![t] = Null]
    /\ slotWrites' = [slotWrites EXCEPT ![t] = 0]

\* ------------------------------------------------------------ native_setup
\* lines 112-115: the constructor (lines 44-58) and
\* addAudioVolumeGroupCallback(callback).  `found` is whether
\* GetObjectClass(thiz) returned a class; `st` is the event source's answer,
\* and on NO_ERROR its registry holds a strong reference to the bridge.
SetupNew(t, found, st) ==
    /\ UNCHANGED regVars
    /\ NativesRegistered(jni)
    /\ pc[t] = "idle"
    /\ CanStart(t)
    /\ nextB <= MaxBridges
    /\ LET b == nextB IN
        /\ nextB' = nextB + 1
        /\ mClass' = [mClass EXCEPT ![b] = IF found THEN Clazz ELSE Unset]
        /\ mObject' = [mObject EXCEPT ![b] = IF found THEN WeakThiz(b) ELSE Unset]
        /\ acquired' = [acquired EXCEPT ![b] =
                            [f \in Handles |-> IF found THEN 1 ELSE 0]]
        /\ callback' = [callback EXCEPT ![t] = b]
        /\ IF st = NO_ERROR
           THEN /\ registry' = registry \cup {b}
                /\ rc' = [rc EXCEPT ![b] = 2]
           ELSE /\ rc' = [rc EXCEPT ![b] = 1]
                /\ UNCHANGED registry
        /\ IF AddSucceeded(st)
           THEN /\ pc' = [pc EXCEPT ![t] = "lock"]
                /\ swNew' = [swNew EXCEPT ![t] = b]
           ELSE /\ pc' = [pc EXCEPT ![t] = "ret"]
                /\ UNCHANGED swNew
    /\ op' = [op EXCEPT ![t] = "setup"]
    /\ status' = [status EXCEPT ![t] = st]
    /\ UNCHANGED <<slot, gLock, destroyed, swOld, evVars, released, badDelete,
                   histVars>>

\* lines 116-118: the sp<> returned by setJniCallback is dropped, then the
\* local callback goes out of scope.
SetupReturn(t) ==
    /\ UNCHANGED regVars
    /\ pc[t] = "ret"
    /\ op[t] = "setup"
    /\ SetHeap(DecStrong(DecStrong(Heap, swOld[t]), callback[t]))
    /\ superseded' = IF swOld[t] # Null THEN superseded \cup {swOld[t]}
                     ELSE superseded
    /\ addFailed' = IF status[t] # NO_ERROR THEN addFailed \cup {callback[t]}
                    ELSE addFailed
    /\ ClearLocals(t)
    /\ UNCHANGED <<slot, gLock, nextB, mClass, mObject, registry, evVars,
                   acquired, removeCalls, takenBy, tornDown, lastInstalled>>

\* --------------------------------------------------------- setJniCallback
\* lines 92-94: Mutex::Autolock l(gLock);
\*              sp<> old = (JNIAudioVolumeChangeHandler*)GetLongField(...)
SwapLock(t) ==
    /\ UNCHANGED regVars
    /\ pc[t] = "lock"
    /\ LockFree(gLock)
    /\ gLock' = t
    /\ swOld' = [swOld EXCEPT ![t] = slot]
    /\ SetHeap(IncStrong(Heap, slot))
    /\ pc' = [pc EXCEPT ![t] = "inc"]
    /\ UNCHANGED <<slot, nextB, mClass, mObject, registry, op, callback, status,
                   swNew, evVars, acquired, histVars>>

\* lines 95-97: if (callback.get()) callback->incStrong(...)
SwapInc(t) ==
    /\ UNCHANGED regVars
    /\ pc[t] = "inc"
    /\ SetHeap(IncStrong(Heap, swNew[t]))
    /\ pc' = [pc EXCEPT ![t] = "dec"]
    /\ UNCHANGED <<slot, gLock, nextB, mClass, mObject, registry, op, callback,
                   status, swNew, swOld, evVars, acquired, histVars>>

\* lines 98-100: if (old != 0) old->decStrong(...)
SwapDec(t) ==
    /\ UNCHANGED regVars
    /\ pc[t] = "dec"
    /\ SetHeap(DecStrong(Heap, swOld[t]))
    /\ pc' = [pc EXCEPT ![t] = "write"]
    /\ UNCHANGED <<slot, gLock, nextB, mClass, mObject, registry, op, callback,
                   status, swNew, swOld, evVars, acquired, histVars>>

\* lines 101-104: SetLongField(thiz, mJniCallback, callback.get()); return
\* old, the Autolock releasing gLock.  In finalize the returned sp<> becomes
\* the local callback (line 124).
SwapWrite(t) ==
    /\ UNCHANGED regVars
    /\ pc[t] = "write"
    /\ slot' = NewSlotValue(swOld[t], swNew[t])
    /\ slotWrites' = [slotWrites EXCEPT ![t] = @ + 1]
    /\ takenBy' = IF swOld[t] # Null /\ slot' # swOld[t]
                  THEN [takenBy EXCEPT ![swOld[t]] = op[t]]
                  ELSE takenBy
    /\ lastInstalled' = IF op[t] = "setup" THEN slot' ELSE lastInstalled
    /\ gLock' = LockAtReturn(t)
    /\ IF op[t] = "setup"
       THEN /\ pc' = [pc EXCEPT ![t] = "ret"]
            /\ UNCHANGED callback
       ELSE /\ pc' = [pc EXCEPT ![t] = "remove"]
            /\ callback' = [callback EXCEPT ![t] = swOld[t]]
    /\ UNCHANGED <<nextB, mClass, mObject, rc, destroyed, registry, op, status,
                   swNew, swOld, evVars, handleVars, removeCalls, tornDown,
                   superseded, addFailed>>

\* --------------------------------------------------------- native_finalize
\* line 124: setJniCallback(env, thiz, 0) is entered
TeardownCall(t) ==
    /\ UNCHANGED regVars
    /\ NativesRegistered(jni)
    /\ pc[t] = "idle"
    /\ CanStart(t)
    /\ pc' = [pc EXCEPT ![t] = "lock"]
    /\ op' = [op EXCEPT ![t] = "teardown"]
    /\ UNCHANGED <<progVars, callback, status, swNew, swOld, evVars, handleVars,
                   histVars>>

\* lines 125-127: removeAudioVolumeGroupCallback(callback).  The event source
\* drops its reference; it does not return while it is running the callback.
TeardownRemove(t) ==
    /\ UNCHANGED regVars
    /\ pc[t] = "remove"
    /\ IF ShouldRemove(callback[t])
       THEN /\ ~InFlight(callback[t])
            /\ removeCalls' = [removeCalls EXCEPT ![callback[t]] = @ + 1]
            /\ IF callback[t] \in registry
               THEN /\ registry' = registry \ {callback[t]}
                    /\ SetHeap(DecStrong(Heap, callback[t]))
               ELSE UNCHANGED <<registry, rc, destroyed, released, badDelete>>
       ELSE UNCHANGED <<removeCalls, registry, rc, destroyed, released, badDelete>>
    /\ pc' = [pc EXCEPT ![t] = "ret"]
    /\ UNCHANGED <<slot, gLock, nextB, mClass, mObject, op, callback, status,
                   swNew, swOld, evVars, acquired, takenBy, tornDown, superseded,
                   addFailed, lastInstalled, slotWrites>>

\* line 128: the local callback goes out of scope
TeardownReturn(t) ==
    /\ UNCHANGED regVars
    /\ pc[t] = "ret"
    /\ op[t] = "teardown"
    /\ SetHeap(DecStrong(Heap, callback[t]))
    /\ tornDown' = IF callback[t] # Null THEN tornDown \cup {callback[t]}
                   ELSE tornDown
    /\ ClearLocals(t)
    /\ UNCHANGED <<slot, gLock, nextB, mClass, mObject, registry, evVars,
                   acquired, removeCalls, takenBy, superseded, addFailed,
                   lastInstalled>>

\* ------------------------------------------------ onAudioVolumeGroupChanged
\* The event source calls the callback of a bridge in its registry;
\* lines 73-76: env = getJNIEnv(); if (env == NULL) return.  `env` is whether
\* the delivery thread is attached to the runtime.
OnEventInvoke(b, payload, env) ==
    /\ UNCHANGED regVars
    /\ evPc = "idle"
    /\ b \in registry
    /\ evB' = b
    /\ evGroup' = payload[1]
    /\ evFlags' = payload[2]
    /\ evAfterErr' = FALSE
    /\ evEnv' = env
    /\ evPc' = IF env THEN "call" ELSE "ret"
    /\ UNCHANGED <<progVars, thrVars, evCalls, evArgs, evRaised, pending,
                   handleVars, histVars>>

\* The event source delivers its next event to the same bridge as soon as
\* the callback has returned (lines 71-76 again); evAfterErr records that the
\* dispatch of the callback before raised.
OnEventNext(payload, env) ==
    /\ UNCHANGED regVars
    /\ evPc = "ret"
    /\ evB \in registry
    /\ evGroup' = payload[1]
    /\ evFlags' = payload[2]
    /\ evAfterErr' = evRaised
    /\ evEnv' = env
    /\ evCalls' = 0
    /\ evArgs' = <<>>
    /\ evRaised' = FALSE
    /\ evPc' = IF env THEN "call" ELSE "ret"
    /\ UNCHANGED <<progVars, thrVars, evB, pending, handleVars, histVars>>

\* lines 77-84: CallStaticVoidMethod(mClass, postEventFromNative, ...), in
\* which the Java method may throw (`raise`), then
\* if (env->ExceptionCheck()) { ALOGW; env->ExceptionClear(); }.
\* A JNI call made with an exception pending does not run the method.
OnEventCall(raise) ==
    /\ UNCHANGED regVars
    /\ evPc = "call"
    /\ IF pending
       THEN UNCHANGED <<evCalls, evArgs, pending, evRaised>>
       ELSE /\ evCalls' = evCalls + 1
            /\ evArgs' = DispatchArgs(evB, evGroup, evFlags)
            /\ pending' = IF raise THEN ExceptionClear(raise) ELSE FALSE
            /\ evRaised' = raise
    /\ evPc' = "ret"
    /\ UNCHANGED <<progVars, thrVars, evB, evGroup, evFlags, evEnv, evAfterErr,
                   handleVars, histVars>>

\* line 85: return to the event source
OnEventReturn ==
    /\ UNCHANGED regVars
    /\ evPc = "ret"
    /\ evPc' = "idle"
    /\ evB' = Null
    /\ evGroup' = 0
    /\ evFlags' = 0
    /\ evEnv' = TRUE
    /\ evCalls' = 0
    /\ evArgs' = <<>>
    /\ evRaised' = FALSE
    /\ evAfterErr' = FALSE
    /\ UNCHANGED <<progVars, thrVars, pending, handleVars, removeCalls, takenBy,
                   tornDown, superseded, addFailed, lastInstalled, slotWrites>>

\* ------------------------------------------------------------------- Next
Next ==
    \/ \E cls, mth, fld, reg \in BOOLEAN : RegisterNatives(cls, mth, fld, reg)
    \/ \E t \in Threads, found \in BOOLEAN, st \in {NO_ERROR, INVALID_OPERATION} :
            SetupNew(t, found, st)
    \/ \E t \in Threads : SetupReturn(t)
    \/ \E t \in Threads : SwapLock(t)
    \/ \E t \in Threads : SwapInc(t)
    \/ \E t \in Threads : SwapDec(t)
    \/ \E t \in Threads : SwapWrite(t)
    \/ \E t \in Threads : TeardownCall(t)
    \/ \E t \in Threads : TeardownRemove(t)
    \/ \E t \in Threads : TeardownReturn(t)
    \/ \E b \in Bridges, payload \in Payloads, env \in BOOLEAN :
            OnEventInvoke(b, payload, env)
    \/ \E payload \in Payloads, env \in BOOLEAN : OnEventNext(payload, env)
    \/ \E raise \in BOOLEAN : OnEventCall(raise)
    \/ OnEventReturn

Spec == Init /\ [][Next]_vars

\* ------------------------------------------------------------ observations
\* No native_setup / native_finalize call is in progress.
Quiescent == \A t \in Threads : pc[t] = "idle"

\* Every constructor run so far found the class and took both handles.
AllResolved == \A b \in Bridges : b < nextB => mClass[b] = Clazz

\* The delivery thread is at, or has made, the dispatch call of a callback on b.
AtDispatch(b) == evB = b /\ (evPc = "call" \/ evCalls > 0)

RECURSIVE RemoveCallsUpTo(_)
RemoveCallsUpTo(n) == IF n < 0 THEN 0 ELSE removeCalls[n] + RemoveCallsUpTo(n - 1)
\* Number of removeAudioVolumeGroupCallback calls made so far.
TotalRemoveCalls == RemoveCallsUpTo(MaxBridges)

\* Owner threads that have made their removeCallback decision and not returned.
Removing == {t \in Threads : op[t] = "teardown" /\ pc[t] = "ret"}

\* The step is one of thread t.
StepOf(t) == pc'[t] # pc[t]
\* The step is one of the delivery thread.
EventStep == evVars' # evVars

\* ------------------------------------------------------------------ claims

C2_AtMostOneRegistered == (Quiescent /\ AllResolved) => Cardinality(registry) <= 1

C4_NextEventDispatches ==
    /\ evPc = "ret" => ~pending
    /\ (evPc = "ret" /\ evAfterErr) => evCalls = 1

\* C4 (amended): a callback returns with no exception pending; no step of
\* the delivery thread changes the slot or the registry; and the callback that
\* follows one whose dispatch raised, on the same bridge, makes its dispatch
\* call when its thread has a JNIEnv (and none when it has not).
C4_ErrorIsContained ==
    /\ [](evPc \in {"ret", "idle"} => ~pending)
    /\ []((evPc = "ret" /\ evAfterErr) => evCalls = (IF evEnv THEN 1 ELSE 0))
    /\ [][EventStep => UNCHANGED <<slot, registry, rc, destroyed>>]_vars

\* C4 witness: the callback after an erroring one, on the same bridge, has
\* dispatched, and the bridge is still in the slot and in the registry.
C4_Witness ==
    evPc = "ret" /\ evAfterErr /\ evCalls = 1 /\ slot = evB /\ evB \in registry

\* C5 (as claimed): a callback on a bridge with proxy P makes exactly one
\* dispatch call, with (P, VOLUME_CHANGED, groupId, flags, 0, null).
C5_SixArguments ==
    (evPc = "ret" /\ mObject[evB] # Unset)
       => /\ evCalls = 1
          /\ evArgs = <<mObject[evB], AUDIOVOLUMEGROUP_EVENT_VOLUME_CHANGED,
                        evGroup, evFlags, 0, NullObject>>

\* C5 (amended): a callback on a bridge with proxy P whose thread has a
\* JNIEnv makes exactly one dispatch call, with the five arguments
\* (P, VOLUME_CHANGED, groupId, flags, null); without a JNIEnv it makes none.
C5_FiveArguments ==
    (evPc = "ret" /\ mObject[evB] # Unset)
       => IF evEnv
          THEN /\ evCalls = 1
               /\ evArgs = <<WeakThiz(evB), AUDIOVOLUMEGROUP_EVENT_VOLUME_CHANGED,
                             evGroup, evFlags, NullObject>>
          ELSE evCalls = 0 /\ evArgs = <<>>

\* C5 witness: the callback for (group 3, flags 1) has dispatched on a
\* registered bridge that holds its proxy.
C5_Witness ==
    /\ evPc = "ret" /\ evEnv /\ evCalls = 1 /\ evGroup = 3 /\ evFlags = 1
    /\ evB \in registry /\ mObject[evB] = WeakThiz(evB)

\* C6: removeCallback is never called for a bridge that a setup displaced;
\* a teardown that took a bridge out of the slot calls it exactly once, for
\* that bridge, which is the one the last setup installed; no other
\* removeCallback call is made.
C6_RemoveOnlyByTeardown ==
    /\ \A b \in Bridges : takenBy[b] = "setup" => removeCalls[b] = 0
    /\ removeCalls[Null] = 0
    /\ \A b \in Bridges : removeCalls[b] <= 1
    /\ \A t \in Removing : callback[t] # Null => removeCalls[callback[t]] = 1
    /\ TotalRemoveCalls =
          Cardinality((tornDown \cup {callback[t] : t \in Removing}) \ {Null})
    /\ slot # Null => slot = lastInstalled
    /\ \A t \in Threads : pc[t] \in {"inc", "dec", "write"} => swOld[t] = slot

\* C6 witness: two setups, the second displacing the first bridge, then a
\* teardown that has called removeCallback for the second bridge only.
C6_Witness ==
    \E t \in Removing :
        /\ callback[t] = 2 /\ lastInstalled = 2 /\ takenBy[1] = "setup"
        /\ removeCalls[2] = 1 /\ removeCalls[1] = 0 /\ TotalRemoveCalls = 1

\* C7 (as claimed): a displaced bridge's handles are released never twice,
\* and are released once no call is in progress (stated for the runs in which
\* every constructor found its class, which is where it fails already).
C7_DisplacedReleasedOnce ==
    /\ \A b \in Bridges : \A f \in Handles : released[b][f] <= 1
    /\ (Quiescent /\ AllResolved) =>
          \A b \in Bridges : takenBy[b] # "none" =>
              destroyed[b] /\ \A f \in Handles : released[b][f] = acquired[b][f]

\* C8 (as claimed): once the setup that displaced a bridge has returned, no
\* callback on that bridge reaches its dispatch call (stated for the states
\* with no call in progress, every constructor having found its class, which
\* is where it fails already).
C8_SupersededIsRetired ==
    (Quiescent /\ AllResolved) => \A b \in superseded : ~AtDispatch(b)

\* C9: every step of a teardown that found the slot empty changes neither
\* the slot, nor the registry, nor a reference count, nor a handle, and makes
\* no removeCallback call; every teardown leaves the slot empty when it
\* writes it.
C9_EmptyTeardownIsNoOp ==
    [][\A t \in Threads :
          (StepOf(t) /\ op[t] = "teardown") =>
             /\ (pc[t] = "write" => slot' = Null)
             /\ ((pc[t] = "lock" /\ slot = Null)
                   \/ (pc[t] \in {"inc", "dec", "write", "remove", "ret"}
                         /\ swOld[t] = Null))
                  => /\ UNCHANGED <<slot, registry, rc, destroyed, released,
                                    badDelete, removeCalls>>
                     /\ pc[t] \in {"lock", "inc", "dec", "write"} => slot = Null]_vars

\* C9 witness: after a teardown that took a bridge has returned, a further
\* teardown found the slot empty and is about to return.
C9_Witness ==
    \E t \in Removing : swOld[t] = Null /\ tornDown # {} /\ slot = Null

\* C10: the slot is empty or references one constructed bridge whose
\* destructor has not run and whose reference count is positive.
C10_SlotHoldsLiveBridge ==
    /\ slot \in Refs
    /\ slot # Null => slot < nextB /\ ~destroyed[slot] /\ rc[slot] >= 1

\* C10 witness: one thread is between the decStrong on the old bridge and
\* the slot write, the old bridge still in the slot, while the other thread
\* waits for the lock.
C10_Witness ==
    \E t, u \in Threads :
        pc[t] = "write" /\ swOld[t] # Null /\ slot = swOld[t] /\ pc[u] = "lock"

\* C11 (as claimed): a bridge whose constructor could not look up the
\* owner's class (GetObjectClass returned NULL, lines 48-52) is never in the
\* event source's registry and is never written into the slot, and the setup
\* that constructed it writes nothing into the slot.
C11_FailedLookupAbortsSetup ==
    /\ \A b \in Bridges :
          (b < nextB /\ mClass[b] = Unset) => (b \notin registry /\ slot # b)
    /\ \A t \in Threads :
          (op[t] = "setup" /\ callback[t] # Null /\ mClass[callback[t]] = Unset)
             => slotWrites[t] = 0

\* C12: when registration could not resolve the dispatch method or the slot
\* field it has aborted, no setup or teardown has ever been entered and no
\* bridge has been constructed; a bridge is constructed only after
\* registration has completed with both ids resolved; and the dispatch method
\* reference is assigned at most once, exactly once before the first bridge,
\* and keeps its value from then on.
C12_RegistrationBeforeBridges ==
    /\ [](jni # "registered" => (nextB = 1 /\ Quiescent /\ slot = Null /\ registry = {}))
    /\ []((jni # "start" /\ (postEventFromNative = Unset \/ mJniCallback = Unset))
             => jni = "aborted")
    /\ [](nextB > 1 => /\ postEventFromNative = PostEventMethodId
                       /\ mJniCallback = JniCallbackFieldId
                       /\ idWrites = 1)
    /\ [](idWrites <= 1)
    /\ [][postEventFromNative # Unset
             => UNCHANGED <<postEventFromNative, mJniCallback, idWrites>>]_vars

\* C12 witness: registration resolved both ids, and a callback on a bridge
\* constructed afterwards is at its dispatch call.
C12_Witness ==
    /\ jni = "registered" /\ idWrites = 1 /\ postEventFromNative = PostEventMethodId
    /\ nextB > 1 /\ evPc = "call" /\ evB \in registry

\* C13: a bridge whose destructor has run is neither in the slot nor in the
\* event source's registry and has no strong reference left; the step that
\* destroys a bridge finds it already out of both, and, when a teardown took
\* it out of the slot, finds removeCallback already called for it; a teardown
\* still holds its bridge alive until it has made that call.
C13_DestroyedAfterUnlinked ==
    /\ [](\A b \in Bridges :
             destroyed[b] => (slot # b /\ b \notin registry /\ rc[b] = 0))
    /\ [](\A t \in Threads :
             (op[t] = "teardown" /\ pc[t] \in {"remove", "ret"} /\ callback[t] # Null)
                => /\ ~destroyed[callback[t]]
                   /\ pc[t] = "ret" => removeCalls[callback[t]] = 1)
    /\ [][\A b \in Bridges :
             (destroyed'[b] /\ ~destroyed[b])
                => /\ slot # b /\ b \notin registry
                   /\ takenBy[b] = "teardown" => removeCalls[b] = 1]_vars

\* C13 witness: a teardown has unregistered and then destroyed the bridge it
\* took out of the slot, and a later setup has installed another bridge.
C13_Witness ==
    \E b \in tornDown :
        /\ destroyed[b] /\ removeCalls[b] = 1 /\ takenBy[b] = "teardown"
        /\ slot # Null /\ slot # b /\ slot \in registry

\* C14: a thread holds gLock exactly between reading the slot and writing
\* it (the reference count adjustments and the slot write); the steps that
\* call addCallback or removeCallback are taken by a thread that does not
\* hold it; and the delivery thread, which makes the dispatch call, never
\* holds it and none of its steps touches it.
C14_LockOnlyAroundSwap ==
    /\ [](gLock \in Threads \cup {"none"})
    /\ [](\A t \in Threads : gLock = t <=> pc[t] \in {"inc", "dec", "write"})
    /\ [][\A t \in Threads :
             (StepOf(t) /\ pc[t] \in {"idle", "remove"}) => (gLock # t /\ gLock' # t)]_vars
    /\ [][EventStep => UNCHANGED gLock]_vars

\* C14 witness: one thread is inside the swap holding gLock while the other
\* is at its removeCallback call and the delivery thread is at its dispatch
\* call.
C14_Witness ==
    \E t, u \in Threads :
        /\ gLock = t /\ pc[t] = "dec"
        /\ pc[u] = "remove" /\ callback[u] # Null
        /\ evPc = "call"

\* C15 (as claimed): with no setup or teardown in progress the slot is
\* non-empty if and only if some bridge of the owner is in the event source's
\* registry (stated for the runs in which every constructor found its class,
\* which is where it fails already).
C15_SlotIffRegistered ==
    (Quiescent /\ AllResolved) => (slot # Null <=> registry # {})

\* C16: a bridge for which a teardown has called removeCallback is not in
\* the registry, not in the slot and not the argument of a swap in progress,
\* from then on; the bridge a setup registers is the one it has just
\* constructed (never constructed, registered, or displaced before); and a
\* bridge is written into the slot only by the setup that constructed it,
\* before any removeCallback call for it.
C16_TornDownIsTerminal ==
    /\ [](\A b \in Bridges :
             removeCalls[b] >= 1
                => /\ b \notin registry
                   /\ slot # b
                   /\ \A t \in Threads :
                         pc[t] \in {"lock", "inc", "dec", "write"} => swNew[t] # b)
    /\ [][\A b \in Bridges :
             (b \in registry' /\ b \notin registry)
                => /\ b = nextB /\ nextB' = b + 1
                   /\ rc[b] = 0 /\ ~destroyed[b]
                   /\ removeCalls[b] = 0 /\ takenBy[b] = "none"]_vars
    /\ [][\A b \in Bridges :
             (slot' = b /\ slot # b)
                => /\ removeCalls[b] = 0 /\ takenBy[b] = "none"
                   /\ \E t \in Threads :
                         op[t] = "setup" /\ pc[t] = "write" /\ callback[t] = b]_vars

\* C16 witness: one bridge has been torn down, and a later setup has
\* registered the bridge it constructed and is about to swap it in.
C16_Witness ==
    \E b \in tornDown : \E t \in Threads :
        /\ removeCalls[b] = 1 /\ b \notin registry
        /\ op[t] = "setup" /\ pc[t] = "lock"
        /\ swNew[t] > b /\ swNew[t] \in registry /\ slot = Null

\* Number of swaps that have returned bridge b as the value they displaced:
\* those of calls still in progress hold it in their returned sp<>, those of
\* calls that have returned are recorded in superseded / tornDown.
ReturnedBy(b) ==
    Cardinality({t \in Threads : pc[t] \in {"remove", "ret"} /\ swOld[t] = b})
      + (IF b \in superseded THEN 1 ELSE 0)
      + (IF b \in tornDown THEN 1 ELSE 0)

\* C17: the value a swap returns is the value the slot held immediately
\* before that swap's write (from its read of the slot to its write the slot
\* does not change, and the write step returns the value it overwrites); each
\* bridge is returned as displaced by at most one swap; and removeCallback is
\* called at most once per bridge.
C17_SwapReturnsDisplaced ==
    /\ [](\A t \in Threads : pc[t] \in {"inc", "dec", "write"} => swOld[t] = slot)
    /\ [][\A t \in Threads :
             (StepOf(t) /\ pc[t] = "write")
                => /\ swOld'[t] = slot
                   /\ op[t] = "teardown" => callback'[t] = slot]_vars
    /\ [](\A b \in Bridges : ReturnedBy(b) <= 1)
    /\ [](\A b \in Bridges : removeCalls[b] <= 1)

\* C17 witness: the two bridges have each been returned by one swap, the
\* first by the setup that displaced it and the second by a teardown that is
\* at its removeCallback call.
C17_Witness ==
    \E t \in Threads :
        /\ op[t] = "teardown" /\ pc[t] = "remove" /\ swOld[t] = 2
        /\ 1 \in superseded /\ ReturnedBy(1) = 1 /\ ReturnedBy(2) = 1

\* C18: a bridge referenced by the slot is in the event source's registry;
\* a setup is inside the swap only with a bridge for which addCallback
\* returned NO_ERROR and which is registered, and writes the slot only so;
\* and removeCallback is called for a bridge only after a teardown's swap has
\* taken it out of the slot.
C18_SlotImpliesRegistered ==
    /\ [](slot # Null => slot \in registry)
    /\ [](\A t \in Threads :
             (op[t] = "setup" /\ pc[t] \in {"lock", "inc", "dec", "write"})
                => /\ status[t] = NO_ERROR
                   /\ swNew[t] = callback[t]
                   /\ swNew[t] \in registry)
    /\ [][\A t \in Threads :
             (StepOf(t) /\ pc[t] = "write" /\ op[t] = "setup")
                => (status[t] = NO_ERROR /\ slot' \in registry)]_vars
    /\ [][\A b \in Bridges :
             removeCalls'[b] > removeCalls[b]
                => (slot # b /\ takenBy[b] = "teardown")]_vars

\* C18 witness: a setup is about to write its registered bridge over the
\* registered bridge of an earlier setup that the slot still references.
C18_Witness ==
    \E t \in Threads :
        /\ op[t] = "setup" /\ pc[t] = "write" /\ status[t] = NO_ERROR
        /\ slot # Null /\ slot # swNew[t] /\ {slot, swNew[t]} \subseteq registry

\* Strong pointers to bridge b held in locals of calls in progress: the
\* local sp<> callback of a setup, and the sp<> old of a swap, which becomes
\* the sp<> the swap returns (in a teardown, its local callback).
LocalRefs(b) ==
    Cardinality({t \in Threads : op[t] = "setup" /\ callback[t] = b})
      + Cardinality({t \in Threads :
                        pc[t] \in {"inc", "dec", "write", "remove", "ret"} /\ swOld[t] = b})

\* What the claim gives as the reference count of bridge b.
ExpectedCount(b) ==
    (IF slot = b THEN 1 ELSE 0) + (IF b \in registry THEN 1 ELSE 0) + LocalRefs(b)

\* The slot's reference to b that a swap in progress has already counted in
\* (line 96 done, line 101 not yet) ...
CountedAhead(b) ==
    Cardinality({t \in Threads : pc[t] \in {"dec", "write"} /\ swNew[t] = b})
\* ... or already counted out (line 99 done, line 101 not yet).
DroppedAhead(b) ==
    Cardinality({t \in Threads : pc[t] = "write" /\ swOld[t] = b})

\* C19 (as claimed): in every state the reference count of a bridge is the
\* slot's reference, plus the registry's, plus the local strong pointers of
\* the calls in progress.
C19_CountIsSlotRegistryLocals ==
    \A b \in Bridges : rc[b] = ExpectedCount(b)

\* C19 (amended): the count is that sum except inside a swap, between its
\* count adjustments and its slot write, where the incoming bridge's count
\* is one ahead of it and, after the decStrong, the outgoing bridge's count
\* one behind; it is never negative; and a constructed bridge has been
\* destroyed exactly when its count is zero.
C19_CountOutsideSwap ==
    /\ \A b \in Bridges :
          /\ rc[b] = ExpectedCount(b) + CountedAhead(b) - DroppedAhead(b)
          /\ rc[b] >= 0
          /\ destroyed[b] <=> (b < nextB /\ rc[b] = 0)
    /\ (\A t \in Threads : pc[t] \notin {"dec", "write"})
          => \A b \in Bridges : rc[b] = ExpectedCount(b)

\* C19 witness: a setup is between its decStrong on the bridge in the slot
\* and its slot write: the old bridge's count is one below the sum and the
\* new bridge's one above.
C19_Witness ==
    \E t \in Threads :
        /\ pc[t] = "write" /\ op[t] = "setup" /\ swOld[t] # Null
        /\ rc[swOld[t]] = ExpectedCount(swOld[t]) - 1
        /\ rc[swNew[t]] = ExpectedCount(swNew[t]) + 1

====
